---------------------------- MODULE Spec2Model ----------------------------
(***************************************************************************)
(* A model of the coachAssistAI workout planner:                           *)
(*   services/workout_routine.py  WorkoutRoutineService                    *)
(*   services/class_roster.py     ClassRosterService, DummyAttendanceService*)
(*   services/workout_planner.py  WorkoutPlannerService                    *)
(*                                                                         *)
(* Conventions.  A Python str that the code takes apart (a template key,   *)
(* a weather description) is a sequence of one-character strings; a str    *)
(* that is only compared or stored (a weekday, a location, a class name)   *)
(* is a TLA+ string.  An Optional value is a sequence of length 0 (None)   *)
(* or 1 (the value).  A Python dict that is iterated is a sequence of      *)
(* <<key, value>> pairs in insertion order.                                *)
(***************************************************************************)
EXTENDS Integers, Sequences, FiniteSets, TLC

VARIABLES
    routines_file,    \* content of configs/routines.json
    routine_service,  \* the WorkoutRoutineService object (templates, weekday_map)
    ret,              \* the value returned by the last routine-service query
    students_file,    \* content of configs/students.json
    attendance,       \* the DummyAttendanceService objects (rand, pool), by instance
    hist,             \* per instance: the get_attendees calls made so far, with results
    classes_file,     \* content of configs/classes.json
    roster_service,   \* the ClassRosterService object (ROSTERS)
    plan,             \* the outcome of the last generate_plan call
    forecast,         \* the outcome of the last OpenMeteo get_wind_forecast call
    aliases           \* the loaded objects the caller's plan refers to

vars == <<routines_file, routine_service, ret, students_file, attendance, hist,
          classes_file, roster_service, plan, forecast, aliases>>

----------------------------------------------------------------------------
(* Optional values *)

None == <<>>

Some(v) == <<v>>

IsNone(o) == o = <<>>

----------------------------------------------------------------------------
(* Python str operations on character sequences *)

DIGITS == <<"0", "1", "2", "3", "4", "5", "6", "7", "8", "9">>

UPPERCASE == <<"A", "B", "C", "D", "E", "F", "G", "H", "I", "J", "K", "L", "M",
               "N", "O", "P", "Q", "R", "S", "T", "U", "V", "W", "X", "Y", "Z">>

LOWERCASE == <<"a", "b", "c", "d", "e", "f", "g", "h", "i", "j", "k", "l", "m",
               "n", "o", "p", "q", "r", "s", "t", "u", "v", "w", "x", "y", "z">>

\* The characters the model uses, in code point order (str comparison).
ALPHABET == <<" ", ",", "/">> \o DIGITS \o UPPERCASE \o LOWERCASE

Range(s) == {s[i] : i \in 1..Len(s)}

IndexOf(c, s) == CHOOSE i \in 1..Len(s) : s[i] = c

CharOrd(c) == IndexOf(c, ALPHABET)

\* str.isdigit(): at least one character, and every character a digit.
IsDigit(x) == Len(x) > 0 /\ \A i \in 1..Len(x) : x[i] \in Range(DIGITS)

\* int(x) for a string of digits.
RECURSIVE IntOf(_)
IntOf(x) ==
    IF Len(x) = 0 THEN 0
    ELSE 10 * IntOf(SubSeq(x, 1, Len(x) - 1)) + (IndexOf(x[Len(x)], DIGITS) - 1)

\* x < y on str: lexicographic by code point, a proper prefix first.
RECURSIVE StrLess(_, _)
StrLess(x, y) ==
    IF Len(y) = 0 THEN FALSE
    ELSE IF Len(x) = 0 THEN TRUE
    ELSE IF x[1] = y[1] THEN StrLess(Tail(x), Tail(y))
    ELSE CharOrd(x[1]) < CharOrd(y[1])

\* c.lower() for one character.
LowerChar(c) ==
    IF c \in Range(UPPERCASE) THEN LOWERCASE[IndexOf(c, UPPERCASE)] ELSE c

\* s.lower()
Lower(s) == [i \in 1..Len(s) |-> LowerChar(s[i])]

\* sub in s
Contains(sub, s) ==
    \E i \in 0..(Len(s) - Len(sub)) : SubSeq(s, i + 1, i + Len(sub)) = sub

----------------------------------------------------------------------------
(* services/workout_routine.py *)

WEEKDAYS == <<"Monday", "Tuesday", "Wednesday", "Thursday", "Friday",
              "Saturday", "Sunday">>

\* dict.get on a dict held as a sequence of <<key, value>> pairs.
HasKey(d, k) == \E i \in 1..Len(d) : d[i][1] = k

DictGet(d, k) == d[CHOOSE i \in 1..Len(d) : d[i][1] = k][2]

DictKeys(d) == [i \in 1..Len(d) |-> d[i][1]]

\* The sort key of line 49: int(x) if x.isdigit() else x.
SortKey(x) ==
    IF IsDigit(x) THEN [isint |-> TRUE, n |-> IntOf(x), s |-> <<>>]
    ELSE [isint |-> FALSE, n |-> 0, s |-> x]

\* a < b on two sort keys of the same type.
KeyLess(a, b) == IF a.isint THEN a.n < b.n ELSE StrLess(a.s, b.s)

\* sorted() compares an int with a str as soon as both kinds are among the
\* keys, and that comparison raises TypeError.
SortRaises(keys) ==
    \E i, j \in 1..Len(keys) : SortKey(keys[i]).isint /= SortKey(keys[j]).isint

\* Insert x after every element that is not greater than it (stable).
RECURSIVE InsertSorted(_, _)
InsertSorted(x, s) ==
    IF Len(s) = 0 THEN <<x>>
    ELSE IF KeyLess(SortKey(x), SortKey(s[1])) THEN <<x>> \o s
    ELSE <<s[1]>> \o InsertSorted(x, Tail(s))

\* sorted(keys, key=...) when no comparison raises: a stable sort.
RECURSIVE Sorted(_)
Sorted(keys) ==
    IF Len(keys) = 0 THEN <<>>
    ELSE InsertSorted(keys[Len(keys)], Sorted(SubSeq(keys, 1, Len(keys) - 1)))


\* A JSON value found under a key of routines.json: a template object with the
\* fields it has, or a value that is no object (isdict = FALSE).
JsonTemplate(fields, name, exercises, duration, intensity) ==
    [isdict |-> TRUE, has |-> fields, name |-> name, exercises |-> exercises,
     duration_minutes |-> duration, intensity |-> intensity]

NotAnObject ==
    [isdict |-> FALSE, has |-> {}, name |-> <<>>, exercises |-> <<>>,
     duration_minutes |-> 0, intensity |-> ""]

\* Python truthiness of a dict: it has at least one key.
Truthy(template) == template.has /= {}

\* f"{day} Routine"
DefaultRoutineName(day) == <<day, " Routine">>

\* WorkoutRoutineService._build_routine_from_template
BuildRoutineFromTemplate(day, template) ==
    [day |-> day,
     name |-> IF "name" \in template.has /\ template.name /= <<>>
              THEN template.name ELSE DefaultRoutineName(day),
     exercises |-> IF "exercises" \in template.has THEN template.exercises ELSE <<>>,
     duration_minutes |-> IF "duration_minutes" \in template.has
                          THEN template.duration_minutes ELSE 0,
     intensity |-> IF "intensity" \in template.has THEN template.intensity
                   ELSE "Medium"]

\* Line 46: keep the entries whose value is a dict, in the file's order.
RECURSIVE FilterDicts(_)
FilterDicts(raw) ==
    IF Len(raw) = 0 THEN <<>>
    ELSE IF raw[1][2].isdict THEN <<raw[1]>> \o FilterDicts(Tail(raw))
    ELSE FilterDicts(Tail(raw))

\* The weekday map as it would be if the keys were reused in a cycle.
WeekdayMapCyclic(keys) ==
    [day \in Range(WEEKDAYS) |->
        LET i == IndexOf(day, WEEKDAYS)
        IN  IF Len(keys) > 0 THEN keys[((i - 1) % Len(keys)) + 1] ELSE <<>>]

\* Lines 59-64: weekday i gets the i-th sorted key, the last key once the keys
\* run out, and "" when there is no key at all.
WeekdayMapOf(keys) ==
    [day \in Range(WEEKDAYS) |->
        LET i == IndexOf(day, WEEKDAYS)
        IN  IF i <= Len(keys) THEN keys[i]
            ELSE IF Len(keys) > 0 THEN keys[Len(keys)] ELSE <<>>]

EmptyMap == [day \in {} |-> <<>>]

NoService == [state |-> "none", exc |-> "", templates |-> <<>>, weekday_map |-> EmptyMap]

\* WorkoutRoutineService.__init__ with _load_templates, on a routines.json that
\* is missing, unparseable ("garbage"), a JSON value that is no object ("list")
\* or a JSON object ("dict", with its entries in file order).
NewWorkoutRoutineService(file) ==
    IF file.kind = "missing" THEN
        [state |-> "ok", exc |-> "", templates |-> <<>>, weekday_map |-> EmptyMap]
    ELSE IF file.kind = "list" THEN
        \* raw.items() on a list
        [state |-> "raised", exc |-> "AttributeError", templates |-> <<>>,
         weekday_map |-> EmptyMap]
    ELSE
        LET raw == IF file.kind = "garbage" THEN <<>> ELSE file.entries
            templates == FilterDicts(raw)
            keys == DictKeys(templates)
        IN  IF SortRaises(keys) THEN
                [state |-> "raised", exc |-> "TypeError", templates |-> templates,
                 weekday_map |-> EmptyMap]
            ELSE
                [state |-> "ok", exc |-> "", templates |-> templates,
                 weekday_map |-> WeekdayMapOf(Sorted(keys))]

\* WorkoutRoutineService.get_routine_for_day: None, or the routine.
GetRoutineForDay(svc, day_name) ==
    IF day_name \notin DOMAIN svc.weekday_map THEN None
    ELSE LET key == svc.weekday_map[day_name]
         IN  IF key = <<>> THEN None
             ELSE IF ~HasKey(svc.templates, key) THEN None
             ELSE IF ~Truthy(DictGet(svc.templates, key)) THEN None
             ELSE Some(BuildRoutineFromTemplate(day_name, DictGet(svc.templates, key)))

\* WorkoutRoutineService.get_all_routines: weekday -> routine.
GetAllRoutines(svc) ==
    LET days == {day \in DOMAIN svc.weekday_map :
                    /\ HasKey(svc.templates, svc.weekday_map[day])
                    /\ Truthy(DictGet(svc.templates, svc.weekday_map[day]))}
    IN  [day \in days |->
            BuildRoutineFromTemplate(day, DictGet(svc.templates, svc.weekday_map[day]))]

\* A date is its number of days after Monday 2025-12-01; strftime("%A").
DayName(target_date) == WEEKDAYS[(target_date % 7) + 1]

\* WorkoutRoutineService.get_routine_for_date
GetRoutineForDate(svc, target_date) == GetRoutineForDay(svc, DayName(target_date))

----------------------------------------------------------------------------
(* The routines.json files the routine service is loaded from *)

MaxTemplates == 8

\* The keys a routines.json may hold, in the order the file lists them:
\* "2", "10", "1", "7", "3", "a", "5", "4", "6", "" and "b".
KEY_UNIVERSE ==
    << <<"2">>, <<"1", "0">>, <<"1">>, <<"7">>, <<"3">>, <<"a">>, <<"5">>, <<"4">>,
       <<"6">>, <<>>, <<"b">> >>

\* The keys whose value varies from file to file.
VARYING_KEYS == { <<"2">>, <<"7">>, <<"a">>, <<>> }

INTENSITIES == <<"Low", "Medium", "High">>

\* The value under key number i of the universe: a complete template, or for
\* a varying key the file's variant of it: an empty object, an object without
\* exercises and duration_minutes, or a value that is no object.
TemplateValue(i, variant) ==
    LET key == KEY_UNIVERSE[i]
        complete == JsonTemplate({"name", "exercises", "duration_minutes", "intensity"},
                                 <<"T">> \o key, <<"Pushups", "Squats">>, 30 + i,
                                 INTENSITIES[(i % 3) + 1])
    IN  IF key \notin VARYING_KEYS \/ variant = "complete" THEN complete
        ELSE IF variant = "empty" THEN JsonTemplate({}, <<>>, <<>>, 0, "")
        ELSE IF variant = "partial"
             THEN JsonTemplate({"name", "intensity"}, <<"T">> \o key, <<>>, 0,
                               INTENSITIES[(i % 3) + 1])
        ELSE NotAnObject

RECURSIVE EntriesOf(_, _, _)
EntriesOf(i, chosen, variant) ==
    IF i > Len(KEY_UNIVERSE) THEN <<>>
    ELSE (IF i \in chosen THEN << <<KEY_UNIVERSE[i], TemplateValue(i, variant)>> >>
          ELSE <<>>) \o EntriesOf(i + 1, chosen, variant)

JsonObjectFile(chosen, variant) ==
    [kind |-> "dict", entries |-> EntriesOf(1, chosen, variant)]

\* A file that is absent, is not JSON, or is JSON but a list.
OtherFile(kind) == [kind |-> kind, entries |-> <<>>]

RoutineFiles ==
    {OtherFile(kind) : kind \in {"missing", "garbage", "list"}}
    \cup {JsonObjectFile(chosen, variant) :
            chosen \in {c \in SUBSET (1..Len(KEY_UNIVERSE)) : Cardinality(c) <= MaxTemplates},
            variant \in {"complete", "empty", "partial", "nondict"}}

NoReturn == [op |-> "none", day |-> "", value |-> None, all |-> EmptyMap]

----------------------------------------------------------------------------
(* The routine service on its own *)

\* routine_service = WorkoutRoutineService(config_path)
ConstructRoutineService ==
    /\ routine_service.state = "none"
    /\ routine_service' = NewWorkoutRoutineService(routines_file)
    /\ UNCHANGED <<routines_file, ret, students_file, attendance, hist,
                   classes_file, roster_service, plan, forecast, aliases>>

\* routine_service.get_routine_for_day(day_name)
CallGetRoutineForDay ==
    /\ routine_service.state = "ok"
    /\ \E day_name \in Range(WEEKDAYS) \cup {"Funday"} :
          ret' = [op |-> "get_routine_for_day", day |-> day_name,
                  value |-> GetRoutineForDay(routine_service, day_name),
                  all |-> EmptyMap]
    /\ UNCHANGED <<routines_file, routine_service, students_file, attendance, hist,
                   classes_file, roster_service, plan, forecast, aliases>>

\* routine_service.get_all_routines()
CallGetAllRoutines ==
    /\ routine_service.state = "ok"
    /\ ret' = [op |-> "get_all_routines", day |-> "", value |-> None,
               all |-> GetAllRoutines(routine_service)]
    /\ UNCHANGED <<routines_file, routine_service, students_file, attendance, hist,
                   classes_file, roster_service, plan, forecast, aliases>>

----------------------------------------------------------------------------
(* random.Random, as DummyAttendanceService uses it.  The Mersenne Twister is
   abstracted to a 16-bit linear congruential generator: what the service
   relies on is that the stream is a function of the seed and of the number
   of draws made so far.  randint and shuffle consume the stream as CPython's
   _randbelow_with_getrandbits, randrange and shuffle do. *)

\* random.Random(seed): the generator's initial state.
SeedRandom(seed) == (seed * 40503 + 12345) % 65536

\* getrandbits(k): advance the state, return its top k bits.
GetRandBits(rand, k) ==
    LET next == (rand * 25173 + 13849) % 65536
    IN  [rand |-> next, value |-> next \div (2 ^ (16 - k))]

\* n.bit_length()
RECURSIVE BitLength(_)
BitLength(n) == IF n = 0 THEN 0 ELSE 1 + BitLength(n \div 2)

\* _randbelow(n): draw bit_length(n) bits until the draw is below n.
RECURSIVE RandBelow(_, _)
RandBelow(rand, n) ==
    LET draw == GetRandBits(rand, BitLength(n))
    IN  IF draw.value < n THEN draw ELSE RandBelow(draw.rand, n)

\* randint(a, b): a + _randbelow(b - a + 1)
RandInt(rand, a, b) ==
    LET draw == RandBelow(rand, b - a + 1)
    IN  [rand |-> draw.rand, value |-> a + draw.value]

Swap(x, i, j) == [x EXCEPT ![i] = x[j], ![j] = x[i]]

\* shuffle(x): for i = len(x)-1 down to 1, swap x[i] with x[_randbelow(i+1)]
\* (0-based); here i is 1-based and runs from Len(x) down to 2.
RECURSIVE ShuffleFrom(_, _, _)
ShuffleFrom(rand, x, i) ==
    IF i < 2 THEN [rand |-> rand, value |-> x]
    ELSE LET draw == RandBelow(rand, i)
         IN  ShuffleFrom(draw.rand, Swap(x, i, draw.value + 1), i - 1)

Shuffle(rand, x) == ShuffleFrom(rand, x, Len(x))

----------------------------------------------------------------------------
(* services/class_roster.py: DummyStudentDirectory, DummyAttendanceService *)

MAX_ATTENDEES == 16

Min(a, b) == IF a < b THEN a ELSE b

\* DummyStudentDirectory.load_students on a students.json that is missing,
\* unparseable, a JSON object, or a JSON list of items <<is a str, value>>.
LoadStudents(file) ==
    IF file.kind = "list" /\ \A i \in 1..Len(file.items) : file.items[i][1]
    THEN [i \in 1..Len(file.items) |-> file.items[i][2]]
    ELSE <<>>

ClassMember(name, status) == [name |-> name, status |-> status]

NoAttendanceService == [state |-> "none", seed |-> 0, rand |-> 0, pool |-> <<>>]

\* DummyAttendanceService.__init__
NewDummyAttendanceService(seed, file) ==
    [state |-> "ok", seed |-> seed, rand |-> SeedRandom(seed), pool |-> LoadStudents(file)]

\* get_attendees as it would be if it drew from a generator seeded anew from
\* the day on every call.
GetAttendeesSeededByDay(svc, class_name, day, location) ==
    LET pool == svc.pool
        rand == SeedRandom(IF day = None THEN svc.seed ELSE svc.seed + 1)
    IN  IF Len(pool) = 0 THEN [svc |-> svc, result |-> <<>>]
        ELSE IF Len(pool) = 1
             THEN [svc |-> svc, result |-> <<ClassMember(pool[1], "Present")>>]
        ELSE LET max_n == Min(MAX_ATTENDEES, Len(pool))
                 n == RandInt(rand, 2, max_n)
                 shuffled == Shuffle(n.rand, pool)
                 selected == SubSeq(shuffled.value, 1, n.value)
             IN  [svc |-> svc,
                  result |-> [i \in 1..Len(selected) |->
                                 ClassMember(selected[i], "Present")]]

\* get_attendees as it would be if it shuffled self.pool itself, not a copy.
GetAttendeesInPlace(svc, class_name, day, location) ==
    LET pool == svc.pool
    IN  IF Len(pool) = 0 THEN [svc |-> svc, result |-> <<>>]
        ELSE IF Len(pool) = 1
             THEN [svc |-> svc, result |-> <<ClassMember(pool[1], "Present")>>]
        ELSE LET max_n == Min(MAX_ATTENDEES, Len(pool))
                 n == RandInt(svc.rand, 2, max_n)
                 shuffled == Shuffle(n.rand, pool)
                 selected == SubSeq(shuffled.value, 1, n.value)
             IN  [svc |-> [svc EXCEPT !.rand = shuffled.rand, !.pool = shuffled.value],
                  result |-> [i \in 1..Len(selected) |->
                                 ClassMember(selected[i], "Present")]]

\* get_attendees as it would be if only the first selected member were
\* marked Present and the others Absent.
GetAttendeesFirstPresent(svc, class_name, day, location) ==
    LET pool == svc.pool
    IN  IF Len(pool) = 0 THEN [svc |-> svc, result |-> <<>>]
        ELSE IF Len(pool) = 1
             THEN [svc |-> svc, result |-> <<ClassMember(pool[1], "Present")>>]
        ELSE LET max_n == Min(MAX_ATTENDEES, Len(pool))
                 n == RandInt(svc.rand, 2, max_n)
                 shuffled == Shuffle(n.rand, pool)
                 selected == SubSeq(shuffled.value, 1, n.value)
             IN  [svc |-> [svc EXCEPT !.rand = shuffled.rand],
                  result |-> [i \in 1..Len(selected) |->
                                 ClassMember(selected[i],
                                             IF i = 1 THEN "Present" ELSE "Absent")]]

\* DummyAttendanceService.get_attendees: the service after the call, and the
\* list returned.  class_name, day and location are accepted and not read.
GetAttendees(svc, class_name, day, location) ==
    LET pool == svc.pool
    IN  IF Len(pool) = 0 THEN [svc |-> svc, result |-> <<>>]
        ELSE IF Len(pool) = 1
             THEN [svc |-> svc, result |-> <<ClassMember(pool[1], "Present")>>]
        ELSE LET max_n == Min(MAX_ATTENDEES, Len(pool))
                 n == RandInt(svc.rand, 2, max_n)
                 shuffled == Shuffle(n.rand, pool)
                 selected == SubSeq(shuffled.value, 1, n.value)
             IN  [svc |-> [svc EXCEPT !.rand = shuffled.rand],
                  result |-> [i \in 1..Len(selected) |->
                                 ClassMember(selected[i], "Present")]]

----------------------------------------------------------------------------
(* services/class_roster.py: ClassRosterService *)

ALLOWED_LOCATIONS ==
    {"Huntington Beach", "Irvine", "Long Beach", "San Diego", "Santa Monica"}

\* An item of the classes.json list: an object with the fields `has`, or a
\* value that is no object.  location is the Optional that .get returns.
ClassEntry(fields, day, class_name, time, location) ==
    [isdict |-> TRUE, has |-> fields, day |-> day, class_name |-> class_name,
     time |-> time, location |-> location]

NotAClassEntry ==
    [isdict |-> FALSE, has |-> {}, day |-> "", class_name |-> "", time |-> "",
     location |-> None]

\* dict[key] = value: replace in place, or append.
DictPut(d, k, v) ==
    IF HasKey(d, k)
    THEN [i \in 1..Len(d) |-> IF d[i][1] = k THEN <<k, v>> ELSE d[i]]
    ELSE Append(d, <<k, v>>)

\* Lines 55-59: classes[day] = entry for every entry that has a day.  The
\* result is [raised, classes]: entry.get on an item that is no object raises.
RECURSIVE CollectClasses(_, _)
CollectClasses(data, classes) ==
    IF Len(data) = 0 THEN [raised |-> FALSE, classes |-> classes]
    ELSE LET entry == data[1]
         IN  IF ~entry.isdict THEN [raised |-> TRUE, classes |-> classes]
             ELSE IF "day" \notin entry.has \/ entry.day = ""
                  THEN CollectClasses(Tail(data), classes)
             ELSE CollectClasses(Tail(data), DictPut(classes, entry.day, entry))

\* Lines 47-61: the class configs by day; {} when the file is missing, is not
\* JSON, is a JSON object (its keys have no .get) or holds a bad item.
LoadClasses(file) ==
    IF file.kind = "list"
    THEN LET got == CollectClasses(file.items, <<>>)
         IN  IF got.raised THEN <<>> ELSE got.classes
    ELSE <<>>

\* The location as it would be if it were taken from the config unchecked.
UncheckedLocation(location) == location

\* Lines 70-71: enforce allowed locations.
ValidLocation(location) ==
    IF location /= None /\ location[1] \in ALLOWED_LOCATIONS THEN location ELSE None

ClassSession(day, class_name, time, roster, location) ==
    [day |-> day, class_name |-> class_name, time |-> time, roster |-> roster,
     location |-> location]

\* Lines 65-82: one session per configured day, asking the attendance service
\* for its attendees.  Carries the attendance service and the log of the calls
\* made on it through the loop.
RECURSIVE BuildRosters(_, _, _, _)
BuildRosters(classes, rosters, att, calls) ==
    IF Len(classes) = 0 THEN [rosters |-> rosters, att |-> att, calls |-> calls]
    ELSE LET day == classes[1][1]
             info == classes[1][2]
             class_name == IF "class_name" \in info.has THEN info.class_name
                           ELSE "Unnamed Class"
             time == IF "time" \in info.has THEN info.time ELSE "00:00"
             location == ValidLocation(IF "location" \in info.has THEN info.location
                                       ELSE None)
             got == GetAttendees(att, class_name, day, location)
         IN  BuildRosters(Tail(classes),
                          DictPut(rosters, day,
                                  ClassSession(day, class_name, time, got.result, location)),
                          got.svc,
                          Append(calls, [class_name |-> class_name, day |-> day,
                                         location |-> location, result |-> got.result]))

NoRosterService == [state |-> "none", ROSTERS |-> <<>>]

\* ClassRosterService.__init__(config_path, attendance_service): the roster
\* service, the attendance service after the calls, and the calls made.
NewClassRosterService(file, att) ==
    LET built == BuildRosters(LoadClasses(file), <<>>, att, <<>>)
    IN  [service |-> [state |-> "ok", ROSTERS |-> built.rosters],
         att |-> built.att, calls |-> built.calls]

\* ClassRosterService.get_roster_for_day: None, or the session.
GetRosterForDay(svc, day_name) ==
    IF HasKey(svc.ROSTERS, day_name) THEN Some(DictGet(svc.ROSTERS, day_name)) ELSE None

\* ClassRosterService.get_roster_for_date
GetRosterForDate(svc, target_date) == GetRosterForDay(svc, DayName(target_date))

----------------------------------------------------------------------------
(* services/workout_planner.py *)

\* services/weather.py WindForcast.  Speeds and temperatures are whole numbers.
WindForcast(location, wind_speed, wind_gust, description, temperature) ==
    [location |-> location, wind_speed_mps |-> wind_speed, wind_gust_mps |-> wind_gust,
     description |-> description, temperature_celsius |-> temperature]

HIGH_WIND == 10

MODERATE_WIND == 5

HIGH_TEMPERATURE == 30

LOW_TEMPERATURE == 5

\* An advisory string: the rule that wrote it and the numbers formatted into it.
Advisory(rule, a, b) == [rule |-> rule, a |-> a, b |-> b]

\* The wind rule as it would be with >= in place of > on the high threshold.
WindAdjustmentsInclusive(wind_forecast) ==
    IF wind_forecast.wind_speed_mps >= HIGH_WIND
    THEN <<Advisory("High wind speed", wind_forecast.wind_speed_mps, 0)>>
    ELSE IF wind_forecast.wind_speed_mps > MODERATE_WIND
    THEN <<Advisory("Moderate wind", wind_forecast.wind_speed_mps, 0)>>
    ELSE <<>>

\* Lines 90-100: high wind, else moderate wind.
WindAdjustments(wind_forecast) ==
    IF wind_forecast.wind_speed_mps > HIGH_WIND
    THEN <<Advisory("High wind speed", wind_forecast.wind_speed_mps, 0)>>
    ELSE IF wind_forecast.wind_speed_mps > MODERATE_WIND
    THEN <<Advisory("Moderate wind", wind_forecast.wind_speed_mps, 0)>>
    ELSE <<>>

\* Lines 102-103
RainAdjustments(wind_forecast) ==
    IF Contains(<<"r", "a", "i", "n">>, Lower(wind_forecast.description))
    THEN <<Advisory("Rainy conditions", 0, 0)>> ELSE <<>>

\* Lines 105-109
ClearAdjustments(wind_forecast) ==
    IF \/ Contains(<<"c", "l", "e", "a", "r">>, Lower(wind_forecast.description))
       \/ Contains(<<"s", "u", "n", "n", "y">>, Lower(wind_forecast.description))
    THEN <<Advisory("Great weather", 0, 0)>> ELSE <<>>

\* The temperature rule as it would be with > in place of >= on the high
\* threshold.
TemperatureAdjustmentsStrict(wind_forecast) ==
    LET temp == wind_forecast.temperature_celsius
    IN  IF temp = None THEN <<>>
        ELSE IF temp[1] > HIGH_TEMPERATURE
        THEN <<Advisory("High temperature", temp[1], 0)>>
        ELSE IF temp[1] <= LOW_TEMPERATURE
        THEN <<Advisory("Low temperature", temp[1], 0)>>
        ELSE <<>>

\* Lines 111-121: high temperature, else low temperature, when there is one.
TemperatureAdjustments(wind_forecast) ==
    LET temp == wind_forecast.temperature_celsius
    IN  IF temp = None THEN <<>>
        ELSE IF temp[1] >= HIGH_TEMPERATURE
        THEN <<Advisory("High temperature", temp[1], 0)>>
        ELSE IF temp[1] <= LOW_TEMPERATURE
        THEN <<Advisory("Low temperature", temp[1], 0)>>
        ELSE <<>>

\* Lines 123-127
IntensityAdjustments(routine) ==
    IF routine.intensity = "High" THEN <<Advisory("High intensity workout", 0, 0)>>
    ELSE <<>>

PresentCount(roster) == Cardinality({i \in 1..Len(roster) : roster[i].status = "Present"})

\* The attendance rule as it would be with <= in place of <.
AttendanceAdjustmentsAtMostHalf(class_session) ==
    IF class_session = None THEN <<>>
    ELSE LET present_count == PresentCount(class_session[1].roster)
             total_count == Len(class_session[1].roster)
         IN  IF 2 * present_count <= total_count
             THEN <<Advisory("Low class attendance", present_count, total_count)>>
             ELSE <<Advisory("Strong class attendance", present_count, total_count)>>

\* Lines 129-143: present_count < total_count * 0.5, on whole numbers.
AttendanceAdjustments(class_session) ==
    IF class_session = None THEN <<>>
    ELSE LET present_count == PresentCount(class_session[1].roster)
             total_count == Len(class_session[1].roster)
         IN  IF 2 * present_count < total_count
             THEN <<Advisory("Low class attendance", present_count, total_count)>>
             ELSE <<Advisory("Strong class attendance", present_count, total_count)>>

OPTIMAL == Advisory("Optimal conditions", 0, 0)

\* _generate_adjustments as it would be if the fallback were appended
\* whenever no weather rule fired, before the intensity and attendance rules.
GenerateAdjustmentsEarlyFallback(routine, wind_forecast, class_session) ==
    LET weather == WindAdjustments(wind_forecast)
                   \o RainAdjustments(wind_forecast)
                   \o ClearAdjustments(wind_forecast)
                   \o TemperatureAdjustments(wind_forecast)
    IN  (IF weather = <<>> THEN <<OPTIMAL>> ELSE weather)
        \o IntensityAdjustments(routine)
        \o AttendanceAdjustments(class_session)

\* _generate_adjustments as it would be with the attendance rule evaluated
\* first and the rain rule after the clear/sunny rule.
GenerateAdjustmentsReordered(routine, wind_forecast, class_session) ==
    LET adjustments == AttendanceAdjustments(class_session)
                       \o WindAdjustments(wind_forecast)
                       \o ClearAdjustments(wind_forecast)
                       \o RainAdjustments(wind_forecast)
                       \o TemperatureAdjustments(wind_forecast)
                       \o IntensityAdjustments(routine)
    IN  IF adjustments = <<>> THEN <<OPTIMAL>> ELSE adjustments

\* WorkoutPlannerService._generate_adjustments
GenerateAdjustments(routine, wind_forecast, class_session) ==
    LET adjustments == WindAdjustments(wind_forecast)
                       \o RainAdjustments(wind_forecast)
                       \o ClearAdjustments(wind_forecast)
                       \o TemperatureAdjustments(wind_forecast)
                       \o IntensityAdjustments(routine)
                       \o AttendanceAdjustments(class_session)
    IN  IF adjustments = <<>> THEN <<OPTIMAL>> ELSE adjustments

Line(what, value) == [line |-> what, value |-> value]

\* WorkoutPlannerService._create_summary: the lines of the summary, in order.
CreateSummary(day_name, routine, wind_forecast, class_session, adjustments) ==
    << Line("Daily Workout Plan", day_name),
       Line("Routine", routine.name),
       Line("Duration", routine.duration_minutes),
       Line("Intensity", routine.intensity),
       Line("Exercises", routine.exercises),
       Line("Weather", wind_forecast.location),
       Line("Wind Speed", wind_forecast.wind_speed_mps),
       Line("Description", wind_forecast.description),
       Line("Temperature", wind_forecast.temperature_celsius) >>
    \o (IF wind_forecast.wind_gust_mps /= None /\ wind_forecast.wind_gust_mps[1] /= 0
        THEN <<Line("Wind Gust", wind_forecast.wind_gust_mps[1])>> ELSE <<>>)
    \o (IF class_session /= None
        THEN << Line("Class Session", class_session[1].class_name),
                Line("Time", class_session[1].time),
                Line("Attendance", <<PresentCount(class_session[1].roster),
                                     Len(class_session[1].roster)>>) >>
        ELSE <<>>)
    \o <<Line("Recommendations", "")>>
    \o [i \in 1..Len(adjustments) |-> Line("bullet", adjustments[i])]

NoPlan ==
    [kind |-> "none", exc |-> "", msg |-> <<>>,
     call |-> [target_date |-> 0, location |-> "", weather_location |-> ""],
     date |-> 0, routine |-> None, wind_forecast |-> None, class_session |-> None,
     recommended_adjustments |-> <<>>, plan_summary |-> <<>>]

\* The location generate_plan asks the weather for (lines 52-56).
WeatherLocation(class_session, location) ==
    IF class_session /= None /\ class_session[1].location /= None
    THEN class_session[1].location[1] ELSE location

\* WorkoutPlannerService.generate_plan.  `weather` is what the weather
\* service's get_wind_forecast does when called: it raises, or returns a
\* forecast.  The weather is fetched (line 59) before the routine is
\* looked at (line 61).
GeneratePlan(routines, rosters, target_date, location, weather) ==
    LET day_name == DayName(target_date)
        routine == GetRoutineForDate(routines, target_date)
        class_session == GetRosterForDate(rosters, target_date)
        weather_location == WeatherLocation(class_session, location)
        call == [target_date |-> target_date, location |-> location,
                 weather_location |-> weather_location]
    IN  IF weather.raised THEN
            [NoPlan EXCEPT !.kind = "raised", !.exc = "WeatherError", !.call = call]
        ELSE IF routine = None THEN
            [NoPlan EXCEPT !.kind = "raised", !.exc = "ValueError",
                           !.msg = <<"No routine found for ", day_name>>, !.call = call]
        ELSE
            LET wind_forecast == weather.forecast
                adjustments == GenerateAdjustments(routine[1], wind_forecast, class_session)
            IN  [kind |-> "plan", exc |-> "", msg |-> <<>>, call |-> call,
                 date |-> target_date,
                 routine |-> routine,
                 wind_forecast |-> Some(wind_forecast),
                 class_session |-> class_session,
                 recommended_adjustments |-> adjustments,
                 plan_summary |-> CreateSummary(day_name, routine[1], wind_forecast,
                                                class_session, adjustments)]

\* Lines 64-79 of generate_plan: the plan made of a routine, a forecast and an
\* optional session.
ComposePlan(target_date, routine, wind_forecast, class_session) ==
    LET adjustments == GenerateAdjustments(routine, wind_forecast, class_session)
    IN  [NoPlan EXCEPT
            !.kind = "plan",
            !.date = target_date,
            !.routine = Some(routine),
            !.wind_forecast = Some(wind_forecast),
            !.class_session = class_session,
            !.recommended_adjustments = adjustments,
            !.plan_summary = CreateSummary(DayName(target_date), routine, wind_forecast,
                                           class_session, adjustments)]

\* What the caller holds after a call: which ClassSession of ROSTERS and which
\* template's "exercises" list its plan refers to, whether it has written to
\* the plan since the call returned, and how many writes it has made in all.
NoAliases == [session |-> None, exercises |-> None, modified |-> FALSE, writes |-> 0]

\* The objects of the services that a returned plan refers to, not copies:
\* plan.class_session is the ClassSession that ROSTERS holds for the day
\* (class_roster.py line 95 returns it, line 76 of the planner stores it), and
\* plan.routine.exercises is the template's own "exercises" list when the
\* template has one (workout_routine.py line 70; the default [] is a new list).
PlanAliases(routines, rosters, target_date, weather) ==
    LET day_name == DayName(target_date)
        routine == GetRoutineForDate(routines, target_date)
    IN  IF weather.raised \/ routine = None THEN NoAliases
        ELSE [session |-> IF HasKey(rosters.ROSTERS, day_name) THEN Some(day_name)
                          ELSE None,
              exercises |-> IF "exercises" \in
                                   DictGet(routines.templates,
                                           routines.weekday_map[day_name]).has
                            THEN Some(routines.weekday_map[day_name]) ELSE None,
              modified |-> FALSE,
              writes |-> 0]

\* list.append on a template's "exercises" list.
AppendExercise(templates, key, exercise) ==
    DictPut(templates, key,
            [DictGet(templates, key) EXCEPT !.exercises = Append(@, exercise)])

\* list.append on the roster of the ClassSession held for a day.
AppendMember(rosters, day, member) ==
    DictPut(rosters, day, [DictGet(rosters, day) EXCEPT !.roster = Append(@, member)])

\* Assignment to the location of the ClassSession held for a day.
SetLocation(rosters, day, location) ==
    DictPut(rosters, day, [DictGet(rosters, day) EXCEPT !.location = location])


----------------------------------------------------------------------------
(* services/weather.py: OpenMeteoWeatherService *)

\* s.split(sep)[0]: s up to its first sep, all of s when it has none.
SplitFirst(s, sep) ==
    IF sep \in Range(s)
    THEN LET first == CHOOSE i \in 1..Len(s) :
                          s[i] = sep /\ \A j \in 1..(i - 1) : s[j] /= sep
         IN  SubSeq(s, 1, first - 1)
    ELSE s

\* s.strip(), for labels whose only whitespace is the space.
RECURSIVE Strip(_)
Strip(s) ==
    IF s = <<>> THEN s
    ELSE IF Head(s) = " " THEN Strip(Tail(s))
    ELSE IF s[Len(s)] = " " THEN Strip(SubSeq(s, 1, Len(s) - 1))
    ELSE s

\* Lines 36-41: the forms of the label that are geocoded, in order.
Candidates(location) ==
    << location,
       Strip(SplitFirst(location, "(")),
       Strip(SplitFirst(location, "-")),
       Strip(SplitFirst(location, ",")) >>

\* str(n) for a natural number.
RECURSIVE Str(_)
Str(n) ==
    IF n < 10 THEN <<DIGITS[n + 1]>>
    ELSE Str(n \div 10) \o <<DIGITS[(n % 10) + 1]>>

\* OpenMeteoWeatherService._describe_weathercode
DescribeWeathercode(code) ==
    IF code = None THEN <<"N", "o", " ", "d", "e", "s", "c", "r", "i", "p", "t", "i", "o", "n", " ", "a", "v", "a", "i", "l", "a", "b", "l", "e">>
    ELSE IF code[1] = 0 THEN <<"C", "l", "e", "a", "r">>
    ELSE IF code[1] \in {1, 2, 3} THEN <<"M", "a", "i", "n", "l", "y", " ", "c", "l", "e", "a", "r", " ", "/", " ", "p", "a", "r", "t", "l", "y", " ", "c", "l", "o", "u", "d", "y">>
    ELSE IF code[1] \in {45, 48} THEN <<"F", "o", "g">>
    ELSE IF 51 <= code[1] /\ code[1] <= 67 THEN <<"D", "r", "i", "z", "z", "l", "e", " ", "/", " ", "R", "a", "i", "n">>
    ELSE IF 71 <= code[1] /\ code[1] <= 77 THEN <<"S", "n", "o", "w", " ", "/", " ", "I", "c", "e">>
    ELSE IF 80 <= code[1] /\ code[1] <= 82 THEN <<"R", "a", "i", "n", " ", "s", "h", "o", "w", "e", "r", "s">>
    ELSE IF 95 <= code[1] /\ code[1] <= 99 THEN <<"T", "h", "u", "n", "d", "e", "r", "s", "t", "o", "r", "m">>
    ELSE <<"W", "e", "a", "t", "h", "e", "r", " ", "c", "o", "d", "e", " ">> \o Str(code[1])

\* An entry of the "results" list of a geocoding response: its keys, and its
\* "name" when it has one.
Place(has, name) == [has |-> has, name |-> name]

\* A request made through self.session.get, and how it was answered.
Request(url, name, answer) == [url |-> url, name |-> name, answer |-> answer]

\* No get_wind_forecast call made on the Open-Meteo service yet.
NoForecast ==
    [kind |-> "none", location |-> <<>>, requests |-> <<>>, place |-> None,
     forecast |-> None]

\* Lines 54-60 as they would be with the description of a missing weather
\* code.
DefaultForecastNoDescription(location) ==
    WindForcast(location, 0, None, <<"N", "o", " ", "d", "e", "s", "c", "r", "i", "p", "t", "i", "o", "n", " ", "a", "v", "a", "i", "l", "a", "b", "l", "e">>, None)

\* Lines 54-60: the reading returned when no place was found.
DefaultForecast(location) ==
    WindForcast(location, 0, None, <<"U", "n", "k", "n", "o", "w", "n">>, None)

\* get_wind_forecast(location) entered: nothing requested yet.
EnterGetWindForecast(location) ==
    [NoForecast EXCEPT !.kind = "geocoding", !.location = location]

\* One turn of the loop of lines 43-51: the geocoding request for the next
\* candidate and what follows from its answer.  The answer raises (the
\* request fails, raise_for_status, or the body is not a JSON object), or it
\* holds a "results" list, empty when the key is absent or null.  After the
\* loop, `if not place` (line 53) also takes a place that is an empty object.
AfterGeocoding(fc, answer) ==
    LET candidate == Candidates(fc.location)[Len(fc.requests) + 1]
        outcome == IF answer.raised THEN "raised"
                   ELSE IF answer.results = <<>> THEN "no results" ELSE "match"
        requests == Append(fc.requests, Request("GEOCODING_URL", candidate, outcome))
        fallback == [fc EXCEPT !.kind = "returned", !.requests = requests,
                               !.forecast = Some(DefaultForecast(fc.location))]
    IN  IF answer.raised THEN [fc EXCEPT !.kind = "raised", !.requests = requests]
        ELSE IF answer.results /= <<>> THEN
            IF answer.results[1].has = {} THEN fallback
            ELSE [fc EXCEPT !.kind = "forecasting", !.requests = requests,
                            !.place = Some(answer.results[1])]
        ELSE IF Len(requests) = Len(Candidates(fc.location)) THEN fallback
        ELSE [fc EXCEPT !.requests = requests]

\* Lines 61-92: the forecast request for the place found and the reading
\* made of its answer.  `current` is the "current_weather" object of the
\* payload, None when the key is absent or null.
AfterForecast(fc, answer) ==
    LET place == fc.place[1]
        name == IF "name" \in place.has /\ place.name /= <<>> THEN place.name
                ELSE fc.location
        absent == [temperature |-> None, windspeed |-> None, weathercode |-> None]
        current == IF answer.current = None THEN absent ELSE answer.current[1]
        requests == Append(fc.requests,
                           Request("FORECAST_URL", <<>>,
                                   IF answer.raised THEN "raised" ELSE "ok"))
    IN  IF answer.raised THEN [fc EXCEPT !.kind = "raised", !.requests = requests]
        ELSE [fc EXCEPT
                 !.kind = "returned", !.requests = requests,
                 !.forecast =
                     Some(WindForcast(name,
                                      IF current.windspeed /= None
                                      THEN current.windspeed[1] ELSE 0,
                                      None,
                                      DescribeWeathercode(current.weathercode),
                                      current.temperature))]

----------------------------------------------------------------------------
(* The students.json and classes.json files, and the weather *)

MaxPool == 17

MaxSeed == 2

MaxCalls == 2

MaxClasses == 2

MaxDate == 7

Instances == {1, 2}

StudentName(i) == "s" \o ToString(i)

StudentList(n) ==
    [kind |-> "list", items |-> [i \in 1..n |-> <<TRUE, StudentName(i)>>]]

\* A students.json that is absent, is not JSON, is a JSON object, is a list
\* with a number in it, or is a list of n unique names.
StudentFiles ==
    {[kind |-> kind, items |-> <<>>] : kind \in {"missing", "garbage", "dict"}}
    \cup {[kind |-> "list", items |-> << <<TRUE, "s1">>, <<FALSE, "7">> >>]}
    \cup {StudentList(n) : n \in {0, 1, 2, 3, 5, MaxPool}}

\* 42 is the default seed of DummyAttendanceService.
Seeds == {42} \cup (0..MaxSeed)

\* The items a classes.json list may hold.
ClassItems ==
    {ClassEntry({"day", "class_name", "time", "location"}, day, "Beach Bootcamp",
                "07:00", location) :
        day \in {"Monday", "Wednesday"},
        location \in {Some("Irvine"), Some("Pasadena"), None}}
    \cup {ClassEntry({"day", "location"}, "Tuesday", "", "", Some("San Diego")),
          ClassEntry({"day", "location"}, "Tuesday", "", "", Some("")),
          ClassEntry({"day"}, "Friday", "", "", None),
          ClassEntry({"class_name", "location"}, "", "Yoga", "", Some("Irvine")),
          NotAClassEntry}

RECURSIVE SeqsUpTo(_, _)
SeqsUpTo(S, n) ==
    IF n = 0 THEN {<<>>}
    ELSE LET shorter == SeqsUpTo(S, n - 1)
         IN  shorter \cup {Append(q, x) : q \in shorter, x \in S}

ClassFiles ==
    {[kind |-> kind, items |-> <<>>] : kind \in {"missing", "garbage", "dict"}}
    \cup {[kind |-> "list", items |-> items] : items \in SeqsUpTo(ClassItems, MaxClasses)}

\* What a weather service may answer: it raises, or returns a forecast.
WIND_SPEEDS == {0, 5, 6, 10, 11}

TEMPERATURES == {None, Some(5), Some(6), Some(29), Some(30)}

DESCRIPTIONS ==
    { <<"C", "l", "e", "a", "r">>,
      <<"R", "a", "i", "n", " ", "s", "h", "o", "w", "e", "r", "s">>,
      <<"U", "n", "k", "n", "o", "w", "n">>,
      <<"S", "u", "n", "n", "y", ",", " ", "r", "a", "i", "n">> }

WeatherAnswers(location) ==
    {[raised |-> TRUE, forecast |-> None]}
    \cup {[raised |-> FALSE,
           forecast |-> WindForcast(location, wind_speed, wind_gust, description,
                                    temperature)] :
            wind_speed \in WIND_SPEEDS, wind_gust \in {None, Some(12)},
            description \in DESCRIPTIONS, temperature \in TEMPERATURES}

----------------------------------------------------------------------------
(* The attendance service and the roster service *)

\* attendance[i] = DummyAttendanceService(seed, students_path)
ConstructAttendanceService(i) ==
    /\ attendance[i].state = "none"
    /\ \E seed \in Seeds :
          attendance' = [attendance EXCEPT
                            ![i] = NewDummyAttendanceService(seed, students_file)]
    /\ UNCHANGED <<routines_file, routine_service, ret, students_file, hist,
                   classes_file, roster_service, plan, forecast, aliases>>

ATTENDEE_ARGS ==
    {[class_name |-> "Beach Bootcamp", day |-> Some("Monday"), location |-> Some("Irvine")],
     [class_name |-> "Yoga", day |-> None, location |-> None]}

\* attendance[i].get_attendees(class_name=..., day=..., location=...)
CallGetAttendees(i) ==
    /\ attendance[i].state = "ok"
    /\ Len(hist[i]) < MaxCalls
    /\ \E args \in ATTENDEE_ARGS :
          LET got == GetAttendees(attendance[i], args.class_name, args.day, args.location)
          IN  /\ attendance' = [attendance EXCEPT ![i] = got.svc]
              /\ hist' = [hist EXCEPT ![i] =
                            Append(@, [class_name |-> args.class_name, day |-> args.day,
                                       location |-> args.location,
                                       result |-> got.result])]
    /\ UNCHANGED <<routines_file, routine_service, ret, students_file,
                   classes_file, roster_service, plan, forecast, aliases>>

\* roster_service = ClassRosterService(config_path, attendance_service=attendance[1])
ConstructRosterService ==
    /\ attendance[1].state = "ok"
    /\ roster_service.state = "none"
    /\ LET built == NewClassRosterService(classes_file, attendance[1])
       IN  /\ roster_service' = built.service
           /\ attendance' = [attendance EXCEPT ![1] = built.att]
           /\ hist' = [hist EXCEPT ![1] =
                         @ \o [n \in 1..Len(built.calls) |->
                                 [class_name |-> built.calls[n].class_name,
                                  day |-> Some(built.calls[n].day),
                                  location |-> built.calls[n].location,
                                  result |-> built.calls[n].result]]]
    /\ UNCHANGED <<routines_file, routine_service, ret, students_file,
                   classes_file, plan, forecast, aliases>>

\* plan = planner.generate_plan(target_date, location), the planner built on
\* the routine service, the roster service and any weather service; main.py
\* makes the call once.
CallGeneratePlan ==
    /\ routine_service.state = "ok"
    /\ roster_service.state = "ok"
    /\ plan.kind = "none"
    /\ \E target_date \in 0..(MaxDate - 1), location \in {"Huntington Beach", "Gym (indoor)"} :
          \E weather \in WeatherAnswers(
                 WeatherLocation(GetRosterForDate(roster_service, target_date), location)) :
             /\ plan' = GeneratePlan(routine_service, roster_service, target_date,
                                     location, weather)
             /\ aliases' = PlanAliases(routine_service, roster_service, target_date,
                                       weather)
    /\ UNCHANGED <<routines_file, routine_service, ret, students_file, attendance, hist,
                   classes_file, roster_service, forecast>>

\* attendance[1] = DummyAttendanceService(students_path=...), with the default
\* seed, as main.py and the tests build it.
ConstructDefaultAttendanceService ==
    /\ attendance[1].state = "none"
    /\ attendance' = [attendance EXCEPT
                         ![1] = NewDummyAttendanceService(42, students_file)]
    /\ UNCHANGED <<routines_file, routine_service, ret, students_file, hist,
                   classes_file, roster_service, plan, forecast, aliases>>

----------------------------------------------------------------------------
(* Specifications *)

MissingFile == [kind |-> "missing", items |-> <<>>]

NoRoutines ==
    /\ routines_file = OtherFile("missing")
    /\ routine_service = NoService
    /\ ret = NoReturn

NoAttendance ==
    /\ attendance = [i \in Instances |-> NoAttendanceService]
    /\ hist = [i \in Instances |-> <<>>]

\* The routine service alone, over every routines.json of RoutineFiles.
InitRoutine ==
    /\ routines_file \in RoutineFiles
    /\ routine_service = NoService
    /\ ret = NoReturn
    /\ students_file = MissingFile
    /\ NoAttendance
    /\ classes_file = MissingFile
    /\ roster_service = NoRosterService
    /\ plan = NoPlan
    /\ forecast = NoForecast
    /\ aliases = NoAliases

NextRoutine ==
    \/ ConstructRoutineService
    \/ CallGetRoutineForDay
    \/ CallGetAllRoutines

SpecRoutine == InitRoutine /\ [][NextRoutine]_vars

\* Attendance services alone: two instances over one students.json.
InitAttendance ==
    /\ NoRoutines
    /\ students_file \in StudentFiles
    /\ NoAttendance
    /\ classes_file = MissingFile
    /\ roster_service = NoRosterService
    /\ plan = NoPlan
    /\ forecast = NoForecast
    /\ aliases = NoAliases

NextAttendance ==
    \E i \in Instances :
        \/ ConstructAttendanceService(i)
        \/ CallGetAttendees(i)

SpecAttendance == InitAttendance /\ [][NextAttendance]_vars

\* The roster service over every classes.json of ClassFiles.
InitRoster ==
    /\ NoRoutines
    /\ students_file \in {StudentList(n) : n \in {0, 1, 3}}
    /\ NoAttendance
    /\ classes_file \in ClassFiles
    /\ roster_service = NoRosterService
    /\ plan = NoPlan
    /\ forecast = NoForecast
    /\ aliases = NoAliases

NextRoster ==
    \/ ConstructAttendanceService(1)
    \/ ConstructRosterService

SpecRoster == InitRoster /\ [][NextRoster]_vars

\* The planner of main.py: the three services are built, then plans are
\* generated.
PlannerRoutineFiles ==
    {OtherFile("missing"),
     JsonObjectFile({3}, "complete"),
     JsonObjectFile({1, 2, 3}, "complete"),
     JsonObjectFile({1, 2, 3}, "empty")}

PlannerClassFiles ==
    {MissingFile,
     [kind |-> "list",
      items |-> << ClassEntry({"day", "class_name", "time", "location"}, "Monday",
                              "Beach Bootcamp", "07:00", Some("Irvine")),
                   ClassEntry({"day", "class_name", "time"}, "Wednesday",
                              "Yoga", "18:00", None) >>],
     [kind |-> "list",
      items |-> << ClassEntry({"day", "class_name", "time", "location"}, "Tuesday",
                              "HIIT", "06:00", Some("Pasadena")) >>]}

Init ==
    /\ routines_file \in PlannerRoutineFiles
    /\ routine_service = NoService
    /\ ret = NoReturn
    /\ students_file \in {StudentList(0), StudentList(3)}
    /\ NoAttendance
    /\ classes_file \in PlannerClassFiles
    /\ roster_service = NoRosterService
    /\ plan = NoPlan
    /\ forecast = NoForecast
    /\ aliases = NoAliases

Next ==
    \/ ConstructRoutineService
    \/ ConstructDefaultAttendanceService
    \/ ConstructRosterService
    \/ CallGeneratePlan

Spec == Init /\ [][Next]_vars

----------------------------------------------------------------------------
(* The Open-Meteo weather service *)

\* Location labels: plain, and with each of the separators the candidates are
\* cut at.
LABELS ==
    { <<"I", "r", "v", "i", "n", "e">>,
      <<"G", "y", "m", " ", "(", "i", "n", "d", "o", "o", "r", ")">>,
      <<"I", "r", "v", "i", "n", "e", " ", "-", " ", "N", "o", "r", "t", "h">>,
      <<"I", "r", "v", "i", "n", "e", ",", " ", "C", "A">>,
      <<"(", "i", "n", "d", "o", "o", "r", ")">> }

PLACES ==
    { Place({}, <<>>),
      Place({"latitude", "longitude"}, <<>>),
      Place({"latitude", "longitude", "name"}, <<>>),
      Place({"latitude", "longitude", "name"}, <<"I", "r", "v", "i", "n", "e">>) }

GeocodingAnswers ==
    {[raised |-> TRUE, results |-> <<>>], [raised |-> FALSE, results |-> <<>>]}
    \cup {[raised |-> FALSE, results |-> <<place>>] : place \in PLACES}

WEATHERCODES == {None, Some(0), Some(2), Some(4), Some(45), Some(61), Some(73),
                 Some(81), Some(96), Some(100)}

ForecastAnswers ==
    {[raised |-> TRUE, current |-> None], [raised |-> FALSE, current |-> None]}
    \cup {[raised |-> FALSE,
           current |-> Some([temperature |-> temperature, windspeed |-> windspeed,
                             weathercode |-> weathercode])] :
            temperature \in {None, Some(20)}, windspeed \in {None, Some(0), Some(7)},
            weathercode \in WEATHERCODES}

\* weather_service.get_wind_forecast(location) is called.
CallGetWindForecast ==
    /\ forecast.kind = "none"
    /\ \E location \in LABELS : forecast' = EnterGetWindForecast(location)
    /\ UNCHANGED <<routines_file, routine_service, ret, students_file, attendance, hist,
                   classes_file, roster_service, plan, aliases>>

\* The geocoding service answers the request for the next candidate.
GeocodingRequest ==
    /\ forecast.kind = "geocoding"
    /\ \E answer \in GeocodingAnswers : forecast' = AfterGeocoding(forecast, answer)
    /\ UNCHANGED <<routines_file, routine_service, ret, students_file, attendance, hist,
                   classes_file, roster_service, plan, aliases>>

\* The forecast service answers the request for the place found.
ForecastRequest ==
    /\ forecast.kind = "forecasting"
    /\ \E answer \in ForecastAnswers : forecast' = AfterForecast(forecast, answer)
    /\ UNCHANGED <<routines_file, routine_service, ret, students_file, attendance, hist,
                   classes_file, roster_service, plan, aliases>>

InitWeather ==
    /\ NoRoutines
    /\ students_file = MissingFile
    /\ NoAttendance
    /\ classes_file = MissingFile
    /\ roster_service = NoRosterService
    /\ plan = NoPlan
    /\ forecast = NoForecast
    /\ aliases = NoAliases

NextWeather ==
    \/ CallGetWindForecast
    \/ GeocodingRequest
    \/ ForecastRequest

SpecWeather == InitWeather /\ [][NextWeather]_vars

----------------------------------------------------------------------------
(* The advisory rules and the summary, on every input *)

MaxRoster == 5

STATUSES == {"Present", "Absent", "Excused"}

\* Rosters of up to MaxRoster members, of every status.
Rosters ==
    UNION {{[i \in 1..n |-> ClassMember(StudentName(i), statuses[i])] :
               statuses \in [1..n -> STATUSES]} : n \in 0..MaxRoster}

\* No session, or a session with one of the rosters.
Sessions ==
    {None} \cup {Some(ClassSession("Monday", "Beach Bootcamp", "07:00", roster,
                                   Some("Irvine"))) : roster \in Rosters}

\* A routine of medium and one of high intensity.
Routines == {BuildRoutineFromTemplate("Monday", TemplateValue(i, "complete")) : i \in {1, 2}}

Forecasts ==
    {WindForcast("Irvine", wind_speed, wind_gust, description, temperature) :
        wind_speed \in {5, 11}, wind_gust \in {None, Some(12)},
        description \in DESCRIPTIONS, temperature \in {None, Some(5)}}

\* plan = WorkoutPlan(...) of _generate_adjustments(routine, wind_forecast,
\* class_session) and _create_summary(...), as generate_plan builds it from
\* what the three services returned.
CallGenerateAdjustments ==
    /\ plan.kind = "none"
    /\ \E routine \in Routines, wind_forecast \in Forecasts, class_session \in Sessions :
          plan' = ComposePlan(0, routine, wind_forecast, class_session)
    /\ UNCHANGED <<routines_file, routine_service, ret, students_file, attendance, hist,
                   classes_file, roster_service, forecast, aliases>>

InitAdvisories ==
    /\ NoRoutines
    /\ students_file = MissingFile
    /\ NoAttendance
    /\ classes_file = MissingFile
    /\ roster_service = NoRosterService
    /\ plan = NoPlan
    /\ forecast = NoForecast
    /\ aliases = NoAliases

NextAdvisories == CallGenerateAdjustments

SpecAdvisories == InitAdvisories /\ [][NextAdvisories]_vars

----------------------------------------------------------------------------
(* A caller that keeps calling generate_plan and writes to the plans it gets *)

MaxWrites == 2

\* Monday's template is complete; Tuesday's is complete or lacks "exercises".
AliasingRoutineFiles ==
    {JsonObjectFile({1, 3}, "complete"), JsonObjectFile({1, 3}, "partial")}

\* A class on Monday, none on Tuesday.
AliasingClassFile ==
    [kind |-> "list",
     items |-> << ClassEntry({"day", "class_name", "time", "location"}, "Monday",
                             "Beach Bootcamp", "07:00", Some("Irvine")) >>]

AliasingWeather(location) ==
    {[raised |-> TRUE, forecast |-> None]}
    \cup {[raised |-> FALSE,
           forecast |-> WindForcast(location, wind_speed, None,
                                    <<"U", "n", "k", "n", "o", "w", "n">>, None)] :
            wind_speed \in {0, 11}}

\* plan = planner.generate_plan(target_date, "Huntington Beach"), any number
\* of times.
CallGeneratePlanRepeatedly ==
    /\ routine_service.state = "ok"
    /\ roster_service.state = "ok"
    /\ \E target_date \in {0, 1} :
          \E weather \in AliasingWeather(
                 WeatherLocation(GetRosterForDate(roster_service, target_date),
                                 "Huntington Beach")) :
             /\ plan' = GeneratePlan(routine_service, roster_service, target_date,
                                     "Huntington Beach", weather)
             /\ aliases' = [PlanAliases(routine_service, roster_service, target_date,
                                        weather) EXCEPT !.writes = aliases.writes]
    /\ UNCHANGED <<routines_file, routine_service, ret, students_file, attendance, hist,
                   classes_file, roster_service, forecast>>

\* plan.routine.exercises.append("Burpees"): the list is the template's own
\* when the template has one.
CallerAppendsExercise ==
    /\ plan.kind = "plan"
    /\ aliases.writes < MaxWrites
    /\ plan' = [plan EXCEPT !.routine[1].exercises = Append(@, "Burpees")]
    /\ routine_service' =
          IF aliases.exercises = None THEN routine_service
          ELSE [routine_service EXCEPT
                   !.templates = AppendExercise(@, aliases.exercises[1], "Burpees")]
    /\ aliases' = [aliases EXCEPT !.modified = TRUE, !.writes = @ + 1]
    /\ UNCHANGED <<routines_file, ret, students_file, attendance, hist,
                   classes_file, roster_service, forecast>>

\* plan.class_session.roster.append(ClassMember("Guest", "Absent")): the
\* session is the one ROSTERS holds.
CallerAppendsMember ==
    /\ plan.kind = "plan"
    /\ plan.class_session /= None
    /\ aliases.writes < MaxWrites
    /\ plan' = [plan EXCEPT !.class_session[1].roster =
                               Append(@, ClassMember("Guest", "Absent"))]
    /\ roster_service' =
          IF aliases.session = None THEN roster_service
          ELSE [roster_service EXCEPT
                   !.ROSTERS = AppendMember(@, aliases.session[1],
                                            ClassMember("Guest", "Absent"))]
    /\ aliases' = [aliases EXCEPT !.modified = TRUE, !.writes = @ + 1]
    /\ UNCHANGED <<routines_file, routine_service, ret, students_file, attendance, hist,
                   classes_file, forecast>>

\* plan.class_session.location = "Elsewhere"
CallerSetsLocation ==
    /\ plan.kind = "plan"
    /\ plan.class_session /= None
    /\ aliases.writes < MaxWrites
    /\ plan' = [plan EXCEPT !.class_session[1].location = Some("Elsewhere")]
    /\ roster_service' =
          IF aliases.session = None THEN roster_service
          ELSE [roster_service EXCEPT
                   !.ROSTERS = SetLocation(@, aliases.session[1], Some("Elsewhere"))]
    /\ aliases' = [aliases EXCEPT !.modified = TRUE, !.writes = @ + 1]
    /\ UNCHANGED <<routines_file, routine_service, ret, students_file, attendance, hist,
                   classes_file, forecast>>

InitAliasing ==
    /\ routines_file \in AliasingRoutineFiles
    /\ routine_service = NoService
    /\ ret = NoReturn
    /\ students_file = StudentList(3)
    /\ NoAttendance
    /\ classes_file = AliasingClassFile
    /\ roster_service = NoRosterService
    /\ plan = NoPlan
    /\ forecast = NoForecast
    /\ aliases = NoAliases

NextAliasing ==
    \/ ConstructRoutineService
    \/ ConstructDefaultAttendanceService
    \/ ConstructRosterService
    \/ CallGeneratePlanRepeatedly
    \/ CallerAppendsExercise
    \/ CallerAppendsMember
    \/ CallerSetsLocation

SpecAliasing == InitAliasing /\ [][NextAliasing]_vars

----------------------------------------------------------------------------
(* Properties *)

Built(i) == attendance[i].state = "ok"

\* C1: with no templates loaded, every generate_plan call ends in the
\* routine-not-found ValueError for its weekday, whatever the weather
\* service does.
C1_NoTemplatesAlwaysRoutineNotFound ==
    (plan.kind /= "none" /\ routine_service.templates = <<>>)
        => /\ plan.kind = "raised"
           /\ plan.exc = "ValueError"
           /\ plan.msg = <<"No routine found for ", DayName(plan.call.target_date)>>

NoDuplicates(q) == \A a, b \in 1..Len(q) : q[a] = q[b] => a = b

Loaded == routine_service.templates

LoadedKeys == Range(DictKeys(Loaded))

\* The loaded key with r - 1 loaded keys of smaller numeric value.
KeyOfRank(r) ==
    CHOOSE key \in LoadedKeys :
        Cardinality({other \in LoadedKeys : IntOf(other) < IntOf(key)}) = r - 1

ExpectedRoutine(day) ==
    BuildRoutineFromTemplate(
        day, DictGet(Loaded, KeyOfRank(Min(IndexOf(day, WEEKDAYS), Len(Loaded)))))

\* C4: with k >= 1 loaded templates, all non-empty objects under numeric
\* keys, weekday number i resolves to the template whose key has rank
\* min(i, k) by numeric value, in get_routine_for_day and in get_all_routines.
C4_WeekdayResolvesToRankMinIK ==
    (/\ routine_service.state = "ok"
     /\ Len(Loaded) >= 1
     /\ \A n \in 1..Len(Loaded) : IsDigit(Loaded[n][1]) /\ Truthy(Loaded[n][2]))
        => /\ (ret.op = "get_routine_for_day" /\ ret.day \in Range(WEEKDAYS))
                  => ret.value = Some(ExpectedRoutine(ret.day))
           /\ ret.op = "get_all_routines"
                  => /\ DOMAIN ret.all = Range(WEEKDAYS)
                     /\ \A day \in Range(WEEKDAYS) : ret.all[day] = ExpectedRoutine(day)

\* Keys "2", "10" and "1" are loaded and Sunday resolved to the template of
\* key "10", the last by numeric value, as Wednesday does.
C4_Witness ==
    /\ routine_service.state = "ok"
    /\ LoadedKeys = { <<"2">>, <<"1", "0">>, <<"1">> }
    /\ ret.op = "get_routine_for_day"
    /\ ret.day = "Sunday"
    /\ ret.value /= None
    /\ ret.value[1].name = <<"T", "1", "0">>
    /\ GetRoutineForDay(routine_service, "Wednesday")[1].name = <<"T", "1", "0">>

\* C5: once at least one template entry is loaded, get_routine_for_day
\* returns a routine for each of the seven weekdays and get_all_routines has
\* all seven weekdays as keys.
C5_LookupTotalOnceATemplateIsLoaded ==
    (routine_service.state = "ok" /\ Len(Loaded) >= 1)
        => /\ (ret.op = "get_routine_for_day" /\ ret.day \in Range(WEEKDAYS))
                  => ret.value /= None
           /\ ret.op = "get_all_routines" => DOMAIN ret.all = Range(WEEKDAYS)

\* The object entries of routines.json mix numeric and non-numeric keys.
MixedKeys ==
    /\ routines_file.kind = "dict"
    /\ \E a, b \in 1..Len(routines_file.entries) :
          /\ routines_file.entries[a][2].isdict /\ routines_file.entries[b][2].isdict
          /\ IsDigit(routines_file.entries[a][1])
          /\ ~IsDigit(routines_file.entries[b][1])

\* a comes before b: a numeric key before a non-numeric one, numeric keys by
\* value, non-numeric keys as strings.
NumericFirst(a, b) ==
    IF IsDigit(a) /\ IsDigit(b) THEN IntOf(a) < IntOf(b)
    ELSE IF IsDigit(a) THEN TRUE
    ELSE IF IsDigit(b) THEN FALSE
    ELSE StrLess(a, b)

\* C6: a mapping that mixes numeric and non-numeric keys loads, and the keys
\* assigned to Monday..Sunday are in numeric-first order.
C6_MixedKeysLoadNumericFirst ==
    (routine_service.state /= "none" /\ MixedKeys)
        => /\ routine_service.state = "ok"
           /\ \A i, j \in 1..Min(Len(WEEKDAYS), Len(Loaded)) :
                 i < j => NumericFirst(routine_service.weekday_map[WEEKDAYS[i]],
                                       routine_service.weekday_map[WEEKDAYS[j]])

FIVE_LOCATIONS ==
    {"Huntington Beach", "Irvine", "Long Beach", "San Diego", "Santa Monica"}

\* The location classes.json configures for a day: that of the last entry for
\* the day, None when the entry has none.
ConfiguredLocation(day) ==
    LET items == classes_file.items
        last == CHOOSE n \in 1..Len(items) :
                    /\ items[n].day = day
                    /\ \A m \in (n + 1)..Len(items) : items[m].day /= day
    IN  IF "location" \in items[last].has THEN items[last].location ELSE None

\* C7: every session the roster service holds has one of the five allowed
\* locations or none; a configured location outside the five, or a missing
\* one, is none in the session; and the attendance service was called, for
\* that session, with the session's location.
C7_SessionLocationAllowedOrAbsent ==
    roster_service.state = "ok"
        => /\ Len(hist[1]) = Len(roster_service.ROSTERS)
           /\ \A n \in 1..Len(roster_service.ROSTERS) :
                 LET session == roster_service.ROSTERS[n][2]
                     configured == ConfiguredLocation(session.day)
                 IN  /\ \/ session.location = None
                        \/ session.location[1] \in FIVE_LOCATIONS
                     /\ (configured = None \/ configured[1] \notin FIVE_LOCATIONS)
                            => session.location = None
                     /\ hist[1][n].day = Some(session.day)
                     /\ hist[1][n].location = session.location
                     /\ hist[1][n].result = session.roster

\* A session configured with "Pasadena" holds no location beside a session
\* that kept "Irvine", and the attendance service saw none and "Irvine".
C7_Witness ==
    /\ roster_service.state = "ok"
    /\ Len(roster_service.ROSTERS) = 2
    /\ ConfiguredLocation(roster_service.ROSTERS[1][2].day) = Some("Pasadena")
    /\ roster_service.ROSTERS[1][2].location = None
    /\ roster_service.ROSTERS[2][2].location = Some("Irvine")
    /\ hist[1][1].location = None
    /\ hist[1][2].location = Some("Irvine")

Advisories == plan.recommended_adjustments

Emitted(rule) == \E n \in 1..Len(Advisories) : Advisories[n].rule = rule

HowMany(rules) == Cardinality({n \in 1..Len(Advisories) : Advisories[n].rule \in rules})

Reading == plan.wind_forecast[1]

Described(word) == Contains(word, Lower(Reading.description))

\* One of the six rules fires on the inputs of the plan.
SomeRuleFires ==
    \/ Reading.wind_speed_mps > 5
    \/ Described(<<"r", "a", "i", "n">>)
    \/ Described(<<"c", "l", "e", "a", "r">>) \/ Described(<<"s", "u", "n", "n", "y">>)
    \/ /\ Reading.temperature_celsius /= None
       /\ \/ Reading.temperature_celsius[1] >= 30
          \/ Reading.temperature_celsius[1] <= 5
    \/ plan.routine[1].intensity = "High"
    \/ plan.class_session /= None

\* C8: the advisory list of every plan is non-empty; it holds the "optimal
\* conditions" fallback exactly when none of the six rules fired, and then
\* holds nothing else.
C8_FallbackIffNoRuleFired ==
    plan.kind = "plan"
        => /\ Len(Advisories) >= 1
           /\ Emitted("Optimal conditions") <=> ~SomeRuleFires
           /\ Emitted("Optimal conditions") => Len(Advisories) = 1

\* A plan whose only advisory is the fallback.
C8_Witness ==
    /\ plan.kind = "plan"
    /\ Advisories = <<Advisory("Optimal conditions", 0, 0)>>

\* C9: at most one wind advisory; the high-wind one exactly when the speed is
\* above 10, the moderate one exactly when it is above 5 and at most 10.
C9_OneWindAdvisoryByThreshold ==
    plan.kind = "plan"
        => /\ HowMany({"High wind speed", "Moderate wind"}) <= 1
           /\ Emitted("High wind speed") <=> Reading.wind_speed_mps > 10
           /\ Emitted("Moderate wind")
                 <=> (Reading.wind_speed_mps > 5 /\ Reading.wind_speed_mps <= 10)

\* A plan for a wind speed of exactly 10: the moderate advisory, not the high one.
C9_Witness ==
    /\ plan.kind = "plan"
    /\ Reading.wind_speed_mps = 10
    /\ Emitted("Moderate wind")
    /\ ~Emitted("High wind speed")

\* C10: at most one temperature advisory; the heat one exactly when there is
\* a temperature of at least 30, the cold one exactly when there is one of at
\* most 5.
C10_OneTemperatureAdvisoryByThreshold ==
    plan.kind = "plan"
        => /\ HowMany({"High temperature", "Low temperature"}) <= 1
           /\ Emitted("High temperature")
                 <=> (Reading.temperature_celsius /= None
                      /\ Reading.temperature_celsius[1] >= 30)
           /\ Emitted("Low temperature")
                 <=> (Reading.temperature_celsius /= None
                      /\ Reading.temperature_celsius[1] <= 5)

\* A plan for a temperature of exactly 30: the heat advisory.
C10_Witness ==
    /\ plan.kind = "plan"
    /\ Reading.temperature_celsius = Some(30)
    /\ Emitted("High temperature")
    /\ ~Emitted("Low temperature")


\* C11: with a session, exactly one attendance advisory is emitted, the
\* low-attendance one exactly when fewer than half of the roster are present
\* (an empty roster gives the strong one); with no session, neither is.
C11_OneAttendanceAdvisoryIffSession ==
    plan.kind = "plan"
        => IF plan.class_session = None
           THEN HowMany({"Low class attendance", "Strong class attendance"}) = 0
           ELSE LET roster == plan.class_session[1].roster
                    low == 2 * PresentCount(roster) < Len(roster)
                IN  /\ HowMany({"Low class attendance", "Strong class attendance"}) = 1
                    /\ Emitted("Low class attendance") <=> low
                    /\ Emitted("Strong class attendance") <=> ~low

\* A session of four members, two of them present: exactly half, so the
\* strong-attendance advisory.
C11_Witness ==
    /\ plan.kind = "plan"
    /\ plan.class_session /= None
    /\ Len(plan.class_session[1].roster) = 4
    /\ PresentCount(plan.class_session[1].roster) = 2
    /\ Emitted("Strong class attendance")
    /\ ~Emitted("Low class attendance")

\* An empty roster: the strong-attendance advisory with 0 of 0.
C11_EmptyRoster ==
    /\ plan.kind = "plan"
    /\ plan.class_session /= None
    /\ plan.class_session[1].roster = <<>>
    /\ Advisory("Strong class attendance", 0, 0) \in Range(Advisories)

\* Two of five present: the low-attendance advisory.
C11_TwoOfFive ==
    /\ plan.kind = "plan"
    /\ plan.class_session /= None
    /\ Advisory("Low class attendance", 2, 5) \in Range(Advisories)

GeocodingRequests ==
    {n \in 1..Len(forecast.requests) : forecast.requests[n].url = "GEOCODING_URL"}

\* The call is over, and each of its geocoding requests was answered without
\* a matching place.
NoCandidateMatched ==
    /\ forecast.kind \in {"returned", "raised"}
    /\ \A n \in GeocodingRequests : forecast.requests[n].answer = "no results"

\* The degraded reading for the label of the call.
UnknownReading ==
    [location |-> forecast.location, wind_speed_mps |-> 0, wind_gust_mps |-> None,
     description |-> <<"U", "n", "k", "n", "o", "w", "n">>, temperature_celsius |-> None]

\* C12: when every geocoding request of a call is answered with no matching
\* place, the call returns, after one geocoding request for each of the four
\* candidate forms and no forecast request, the reading with the original
\* label, wind speed 0, no gust, no temperature and description "Unknown";
\* any other reading is returned only after a candidate matched.
C12_NoMatchDegradesToUnknown ==
    /\ NoCandidateMatched
          => /\ forecast.kind = "returned"
             /\ forecast.forecast = Some(UnknownReading)
             /\ [n \in 1..Len(forecast.requests) |-> forecast.requests[n].name]
                   = << forecast.location,
                        Strip(SplitFirst(forecast.location, "(")),
                        Strip(SplitFirst(forecast.location, "-")),
                        Strip(SplitFirst(forecast.location, ",")) >>
             /\ GeocodingRequests = 1..Len(forecast.requests)
    /\ (forecast.kind = "returned" /\ forecast.forecast /= Some(UnknownReading))
          => \E n \in GeocodingRequests : forecast.requests[n].answer = "match"

\* "Gym (indoor)" found under none of its forms: four requests, the second
\* for "Gym", and the "Unknown" reading for "Gym (indoor)".
C12_Witness ==
    /\ NoCandidateMatched
    /\ forecast.location = <<"G", "y", "m", " ", "(", "i", "n", "d", "o", "o", "r", ")">>
    /\ [n \in 1..Len(forecast.requests) |-> forecast.requests[n].name]
          = << <<"G", "y", "m", " ", "(", "i", "n", "d", "o", "o", "r", ")">>,
               <<"G", "y", "m">>,
               <<"G", "y", "m", " ", "(", "i", "n", "d", "o", "o", "r", ")">>,
               <<"G", "y", "m", " ", "(", "i", "n", "d", "o", "o", "r", ")">> >>
    /\ forecast.forecast[1].description = <<"U", "n", "k", "n", "o", "w", "n">>
    /\ forecast.forecast[1].location = <<"G", "y", "m", " ", "(", "i", "n", "d", "o", "o", "r", ")">>

\* A routine as the specification describes one: a duration above zero and at
\* least one exercise.
WellFormedRoutine(routine) ==
    routine.duration_minutes > 0 /\ routine.exercises /= <<>>

\* C13: every routine returned by get_routine_for_day or get_all_routines has
\* a duration above zero and a non-empty exercise list, whatever the loaded
\* template leaves out.
C13_ReturnedRoutinesHaveDurationAndExercises ==
    /\ ret.value /= None => WellFormedRoutine(ret.value[1])
    /\ \A day \in DOMAIN ret.all : WellFormedRoutine(ret.all[day])

\* C14: a WorkoutRoutineService built on a source that is missing, is not
\* JSON, or is JSON of the wrong shape is constructed and holds no template.
C14_BadRoutineSourceGivesEmptyTemplates ==
    (routine_service.state /= "none" /\ routines_file.kind \in {"missing", "garbage", "list"})
        => /\ routine_service.state = "ok"
           /\ routine_service.templates = <<>>

\* The same for ClassRosterService: an empty schedule.
C14_BadClassSourceGivesEmptySchedule ==
    (roster_service.state /= "none" /\ classes_file.kind \in {"missing", "garbage", "dict"})
        => /\ roster_service.state = "ok"
           /\ roster_service.ROSTERS = <<>>

\* The same for DummyAttendanceService: an empty pool.
C14_BadStudentSourceGivesEmptyPool ==
    \A i \in Instances :
        (/\ attendance[i].state /= "none"
         /\ \/ students_file.kind \in {"missing", "garbage", "dict"}
            \/ \E n \in 1..Len(students_file.items) : ~students_file.items[n][1])
            => /\ attendance[i].state = "ok"
               /\ attendance[i].pool = <<>>

\* The services as construction left them.
LoadedRoutines == NewWorkoutRoutineService(routines_file)

LoadedRosters ==
    NewClassRosterService(classes_file, NewDummyAttendanceService(42, students_file)).service

\* C15: whatever the caller writes to the plans it was given, the loaded
\* templates and sessions stay as construction left them, and a plan just
\* returned has the routine, session and advisories that the untouched
\* services give for its date and weather reading.
C15_PlansShareNothingWithLoadedConfig ==
    /\ routine_service.state = "ok" => routine_service = LoadedRoutines
    /\ roster_service.state = "ok" => roster_service = LoadedRosters
    /\ (plan.kind = "plan" /\ ~aliases.modified)
          => LET untouched == GeneratePlan(LoadedRoutines, LoadedRosters,
                                           plan.call.target_date, plan.call.location,
                                           [raised |-> FALSE,
                                            forecast |-> plan.wind_forecast[1]])
             IN  /\ plan.routine = untouched.routine
                 /\ plan.class_session = untouched.class_session
                 /\ plan.recommended_adjustments = untouched.recommended_adjustments

\* What does hold: a routine built from a template without "exercises" gets
\* a list of its own, so writes to it never reach the templates.
C15_DefaultExerciseListIsNotShared ==
    [][(CallerAppendsExercise /\ aliases.exercises = None)
          => routine_service' = routine_service]_vars

\* The rule table: the place of each advisory's rule in the fixed order wind,
\* rain, clear/sunny, temperature, intensity, attendance.
RuleRank(rule) ==
    CASE rule \in {"High wind speed", "Moderate wind"} -> 1
      [] rule = "Rainy conditions" -> 2
      [] rule = "Great weather" -> 3
      [] rule \in {"High temperature", "Low temperature"} -> 4
      [] rule = "High intensity workout" -> 5
      [] rule \in {"Low class attendance", "Strong class attendance"} -> 6
      [] OTHER -> 0

\* The places of the rules that fire on the inputs of the plan.
FiredRanks ==
    {rank \in 1..6 :
        \/ rank = 1 /\ Reading.wind_speed_mps > 5
        \/ rank = 2 /\ Described(<<"r", "a", "i", "n">>)
        \/ rank = 3 /\ (\/ Described(<<"c", "l", "e", "a", "r">>)
                        \/ Described(<<"s", "u", "n", "n", "y">>))
        \/ rank = 4 /\ Reading.temperature_celsius /= None
                    /\ (\/ Reading.temperature_celsius[1] >= 30
                        \/ Reading.temperature_celsius[1] <= 5)
        \/ rank = 5 /\ plan.routine[1].intensity = "High"
        \/ rank = 6 /\ plan.class_session /= None}

\* The place in the summary of its one line of a kind.
LineAt(what) ==
    CHOOSE n \in 1..Len(plan.plan_summary) : plan.plan_summary[n].line = what

\* C16: the advisories are those of the rules that fired, one each, in the
\* order wind, rain, clear/sunny, temperature, intensity, attendance; the
\* summary ends with one bulleted line per advisory, in the same order, after
\* the routine, weather, optional session and "Recommendations" lines.
C16_AdvisoriesInRuleOrder ==
    plan.kind = "plan"
        => LET summary == plan.plan_summary
               first == Len(summary) - Len(Advisories)
           IN  /\ FiredRanks = {} => Advisories = <<Advisory("Optimal conditions", 0, 0)>>
               /\ FiredRanks /= {}
                     => /\ {RuleRank(Advisories[n].rule) : n \in 1..Len(Advisories)}
                              = FiredRanks
                        /\ \A n \in 1..(Len(Advisories) - 1) :
                              RuleRank(Advisories[n].rule) < RuleRank(Advisories[n + 1].rule)
               /\ {n \in 1..Len(summary) : summary[n].line = "bullet"}
                     = (first + 1)..Len(summary)
               /\ \A n \in 1..Len(Advisories) : summary[first + n].value = Advisories[n]
               /\ summary[first].line = "Recommendations"
               /\ LineAt("Routine") < LineAt("Weather")
               /\ LineAt("Weather") < first
               /\ plan.class_session /= None
                     => (LineAt("Weather") < LineAt("Class Session")
                         /\ LineAt("Class Session") < first)

\* A plan on which all six rules fire, rain and clear/sunny both.
C16_Witness ==
    /\ plan.kind = "plan"
    /\ [n \in 1..Len(Advisories) |-> Advisories[n].rule]
          = <<"High wind speed", "Rainy conditions", "Great weather", "Low temperature",
              "High intensity workout", "Low class attendance">>
    /\ plan.plan_summary[Len(plan.plan_summary)].value
          = Advisory("Low class attendance", 1, 3)

\* C17: with rosters drawn from DummyAttendanceService, every member of every
\* session is Present; no plan carries the low-attendance advisory, and a plan
\* for a date with a session carries the strong-attendance advisory with
\* present = total = the roster's length (0/0 for an empty pool) and not the
\* fallback.
C17_DummyRostersAlwaysStrongAttendance ==
    /\ \A n \in 1..Len(roster_service.ROSTERS) :
          \A member \in Range(roster_service.ROSTERS[n][2].roster) :
             member.status = "Present"
    /\ plan.kind = "plan"
          => /\ ~Emitted("Low class attendance")
             /\ plan.class_session /= None
                   => /\ Advisory("Strong class attendance",
                                  Len(plan.class_session[1].roster),
                                  Len(plan.class_session[1].roster))
                         \in Range(Advisories)
                      /\ ~Emitted("Optimal conditions")
             /\ plan.class_session = None => ~Emitted("Strong class attendance")

\* A plan for a session whose roster was drawn from an empty pool: strong
\* attendance, 0 of 0, and nothing else to advise.
C17_Witness ==
    /\ plan.kind = "plan"
    /\ attendance[1].pool = <<>>
    /\ plan.class_session /= None
    /\ plan.class_session[1].roster = <<>>
    /\ Advisories = <<Advisory("Strong class attendance", 0, 0)>>

\* A plan for a session of two or more members, all of them present.
C17_FullRoster ==
    /\ plan.kind = "plan"
    /\ plan.class_session /= None
    /\ Len(plan.class_session[1].roster) >= 2
    /\ Emitted("Strong class attendance")
=============================================================================
